---- MODULE Spec2Model ----
(***************************************************************************)
(* Model of src/main.go: the Pulumi program that declares a resource group,*)
(* NSGs, route tables, a virtual network, subnets, public IPs, NICs, a     *)
(* random identifier and a virtual machine, in that order.                 *)
(*                                                                         *)
(* A handle is the position of a declaration in the emission trace; 0 is   *)
(* the nil pointer.  pc is the statement the run is at, or stopped at.     *)
(* Strings are TLA+ strings, and names are composed with \o exactly as the  *)
(* program composes them with +.  Security rules, routes,                  *)
(* address prefixes, VM sizing and credentials are copied field by field   *)
(* into the declarations and take part in no lookup and no control flow;   *)
(* they are left out of the records.                                       *)
(***************************************************************************)
EXTENDS Naturals, Sequences, FiniteSets, TLC

VARIABLES ctx, run, twin, materialized

vars == <<ctx, run, twin, materialized>>

(***************************************************************************)
(* Bounds of the model.                                                    *)
(***************************************************************************)
MaxResources == 5
MaxPeers == 2

\* Logical names a resource may be configured under, and the names the
\* references to resources use: a reference dangles when no resource of the
\* kind is configured under its name.
Names == {"a", "b"}
RefNames == {"a"}
PipNames == RefNames \cup {""}
Stacks == {"dev"}
Solutions == {"fw"}
ReadmeContents == {"# panos-vm"}
ReadErrors == {"open ./README.md: no such file or directory"}
HostErrors == {"quota exceeded", "context canceled"}
RandomResults == {"abcd1234", "w0x1y2z3"}

Range(s) == {s[k] : k \in DOMAIN s}

(***************************************************************************)
(* The configuration document, as the type structs declare it.             *)
(***************************************************************************)
NSG == [Name : Names]
RT == [Name : Names]
SNET == [Name : Names, NSGName : RefNames, RTName : RefNames]
PIP == [Name : Names]
NIC == [Name : Names, PipName : PipNames, SnetName : RefNames]
NICMAP == [Nic0 : Names, Nic1 : Names, Nic2 : RefNames]
Tags == [Solution : Solutions]
VM == [NicMap : NICMAP]

\* The numbers of NSGs, route tables, subnets, public IPs and NICs of a
\* configuration of at most MaxResources resources, at most MaxPeers of a kind.
Sizes ==
    {n \in [1..5 -> 0..MaxPeers] : n[1] + n[2] + n[3] + n[4] + n[5] <= MaxResources}

VNET(n) == [NSG : [1..n[1] -> NSG], RT : [1..n[2] -> RT], SNET : [1..n[3] -> SNET],
            PIP : [1..n[4] -> PIP], NIC : [1..n[5] -> NIC]]

\* The zero values of `var tags Tags`, `var vnet VNET`, `var vm VM`.
ZeroTags == [Solution |-> ""]
ZeroVNET == [NSG |-> <<>>, RT |-> <<>>, SNET |-> <<>>, PIP |-> <<>>, NIC |-> <<>>]
ZeroVM == [NicMap |-> [Nic0 |-> "", Nic1 |-> "", Nic2 |-> ""]]

NilPanic == "runtime error: invalid memory address or nil pointer dereference"

(***************************************************************************)
(* The local variables of the function passed to pulumi.Run, before its    *)
(* first statement.  trace is what the host runtime has been handed.       *)
(***************************************************************************)
InitRun ==
    [status |-> "running", pc |-> "readme", i |-> 1, err |-> "nil", exports |-> <<>>,
     consulted |-> FALSE, tags |-> ZeroTags, vnet |-> ZeroVNET, vm |-> ZeroVM,
     nameSuffix |-> "", trace |-> <<>>, resourceGroup |-> 0,
     nsgMap |-> <<>>, rtMap |-> <<>>, virtualNetworkDependencies |-> <<>>,
     virtualNetwork |-> 0, snetMap |-> <<>>, snetResources |-> <<>>,
     pipMap |-> <<>>, pipResources |-> <<>>, nicMap |-> <<>>,
     nicResources |-> <<>>, randomOsDiskId |-> 0]

\* A map that is made afresh on every write.
MapSetAfresh(m, k, v) == (k :> v)

\* A Go map after m[k] = v.
MapSet(m, k, v) == (k :> v) @@ m

\* The orders in which `for _, v := range m` may visit the map m.
RangeOrders(m) ==
    LET n == Cardinality(DOMAIN m)
    IN  {s \in [1..n -> DOMAIN m] : \A p, q \in 1..n : p # q => s[p] # s[q]}

\* The values of m in the visiting order s.
ValuesIn(m, s) == [k \in DOMAIN s |-> m[s[k]]]

(***************************************************************************)
(* Control flow of main: the declaration the run makes next.               *)
(***************************************************************************)
\* Stages with the route table loop moved ahead of the NSG loop.
StagesRouteTablesFirst ==
    <<"rg", "rt", "nsg", "vnet", "snet", "pip", "nic", "rand", "vm", "done">>

Stages == <<"rg", "nsg", "rt", "vnet", "snet", "pip", "nic", "rand", "vm", "done">>

Items(v, stage) ==
    CASE stage = "nsg" -> v.NSG
      [] stage = "rt" -> v.RT
      [] stage = "snet" -> v.SNET
      [] stage = "pip" -> v.PIP
      [] stage = "nic" -> v.NIC
      [] OTHER -> <<>>

IsLoop(stage) == stage \in {"nsg", "rt", "snet", "pip", "nic"}

StageNo(stage) == CHOOSE k \in DOMAIN Stages : Stages[k] = stage

\* Entering stage number k: a loop over an empty list falls through.
RECURSIVE Enter(_, _)
Enter(v, k) ==
    IF IsLoop(Stages[k]) /\ Len(Items(v, Stages[k])) = 0
    THEN Enter(v, k + 1)
    ELSE Stages[k]

\* After a successful declaration in stage r.pc: the next loop iteration,
\* or the next stage.
Advance(r) ==
    IF IsLoop(r.pc) /\ r.i < Len(Items(r.vnet, r.pc))
    THEN [r EXCEPT !.i = r.i + 1]
    ELSE [r EXCEPT !.pc = Enter(r.vnet, StageNo(r.pc) + 1), !.i = 1]

\* return err
Return(r, e) == [r EXCEPT !.status = "returned", !.err = e]

\* A nil pointer dereference: the program panics.
Panic(r) == [r EXCEPT !.status = "panicked", !.err = NilPanic]

(***************************************************************************)
(* The host runtime's answer to a resource constructor: d is registered    *)
(* and its handle returned, or d is refused with error e.                  *)
(***************************************************************************)
Emit(r, d, ok, e) ==
    [r EXCEPT !.trace = Append(r.trace, d @@ [ok |-> ok, err |-> IF ok THEN "nil" ELSE e])]

Handle(r) == Len(r.trace)

\* Register without the `if err != nil { return err }`.
RegisterUnchecked(r, d, ok, e) == Emit(r, d, ok, e)

\* ctx.RegisterResource behind every New... constructor, and the
\* `if err != nil { return err }` that follows it.
Register(r, d, ok, e) ==
    IF ok THEN Emit(r, d, TRUE, e) ELSE Return(Emit(r, d, FALSE, e), e)

\* The name without the logical name.
ResourceNameOfKind(prefix, logical, nameSuffix) == prefix \o nameSuffix

\* "<prefix>" + logical + "-" + nameSuffix
ResourceName(prefix, logical, nameSuffix) == prefix \o logical \o "-" \o nameSuffix

Decl(kind, logical, name, deps, parent, uses, args) ==
    [kind |-> kind, logical |-> logical, name |-> name, deps |-> deps,
     parent |-> parent, uses |-> uses, args |-> args]

(***************************************************************************)
(* The statements of main, one operator per step.  Each gives the set of   *)
(* states the run may be in after the step, given the answer (ok, e) of    *)
(* the file system or of the host runtime.                                 *)
(***************************************************************************)

\* ReadReadme with the error of os.ReadFile dropped: the nil bytes are exported.
ReadReadmeUnchecked(r, ok, content, e) ==
    {[r EXCEPT !.exports = Append(@, [key |-> "readme",
                                       value |-> IF ok THEN content ELSE ""]),
               !.pc = "config"]}

\* os.ReadFile("./README.md") and ctx.Export("readme", ...)
ReadReadme(r, ok, content, e) ==
    IF ~ok
    THEN {Return(r, "failed to read readme: " \o e)}
    ELSE {[r EXCEPT !.exports = Append(@, [key |-> "readme", value |-> content]),
                    !.pc = "config"]}

\* config.New, the three cfg.RequireObject calls, requiredTags, nameSuffix
LoadConfig(r, c) ==
    {[r EXCEPT !.consulted = TRUE, !.tags = c.config.tags, !.vnet = c.config.vnet,
               !.vm = c.config.vm, !.nameSuffix = "panos-vm-" \o c.stack \o "-",
               !.pc = "rg"]}

NewResourceGroup(r, ok, e) ==
    LET d == Decl("ResourceGroup", "", "rg-" \o r.nameSuffix, <<>>, 0, {},
                  [Tags |-> r.tags])
        r1 == Register(r, d, ok, e)
    IN  IF r1.status = "returned" THEN {r1}
        ELSE {Advance([r1 EXCEPT !.resourceGroup = Handle(r1)])}

NewNetworkSecurityGroup(r, ok, e) ==
    LET nsg == r.vnet.NSG[r.i]
        d == Decl("NSG", nsg.Name, ResourceName("nsg-", nsg.Name, r.nameSuffix),
                  <<r.resourceGroup>>, r.resourceGroup, {r.resourceGroup},
                  [Tags |-> r.tags])
        r1 == Register(r, d, ok, e)
    IN  IF r1.status = "returned" THEN {r1}
        ELSE {Advance([r1 EXCEPT !.nsgMap = MapSet(@, nsg.Name, Handle(r1))])}

\* routeTableDependencies without the loop over nsgMap.
RouteTableDependenciesGroupOnly(r, order) == <<r.resourceGroup>>

\* routeTableDependencies, for one visiting order of nsgMap
RouteTableDependencies(r, order) == <<r.resourceGroup>> \o ValuesIn(r.nsgMap, order)

NewRouteTable(r, ok, e) ==
    LET rt == r.vnet.RT[r.i]
    IN  UNION {
          LET d == Decl("RT", rt.Name, ResourceName("rt-", rt.Name, r.nameSuffix),
                        RouteTableDependencies(r, order), r.resourceGroup,
                        {r.resourceGroup}, [Tags |-> r.tags])
              r1 == Register(r, d, ok, e)
          IN  IF r1.status = "returned" THEN {r1}
              ELSE {Advance([r1 EXCEPT !.rtMap = MapSet(@, rt.Name, Handle(r1))])}
          : order \in RangeOrders(r.nsgMap)}

\* virtualNetworkDependencies whose first loop stops after one NSG.
VirtualNetworkDependenciesFirstOnly(r, nsgOrder, rtOrder) ==
    (IF Len(nsgOrder) = 0 THEN <<>> ELSE <<r.nsgMap[nsgOrder[1]]>>)
        \o ValuesIn(r.rtMap, rtOrder)

\* virtualNetworkDependencies, for one visiting order of each map
VirtualNetworkDependencies(r, nsgOrder, rtOrder) ==
    ValuesIn(r.nsgMap, nsgOrder) \o ValuesIn(r.rtMap, rtOrder)

NewVirtualNetwork(r, ok, e) ==
    UNION {
      LET r0 == [r EXCEPT !.virtualNetworkDependencies =
                              VirtualNetworkDependencies(r, nsgOrder, rtOrder)]
          d == Decl("VNet", "", "vnet-" \o r.nameSuffix,
                    r0.virtualNetworkDependencies, r.resourceGroup,
                    {r.resourceGroup}, [Tags |-> r.tags])
          r1 == Register(r0, d, ok, e)
      IN  IF r1.status = "returned" THEN {r1}
          ELSE {Advance([r1 EXCEPT !.virtualNetwork = Handle(r1)])}
      : nsgOrder \in RangeOrders(r.nsgMap), rtOrder \in RangeOrders(r.rtMap)}

\* m[k].ID(): a missing key gives the nil pointer, whose ID() panics.
Resolves(m, k) == k \in DOMAIN m

NewSubnet(r, ok, e) ==
    LET snet == r.vnet.SNET[r.i]
    IN  IF ~Resolves(r.nsgMap, snet.NSGName) \/ ~Resolves(r.rtMap, snet.RTName)
        THEN {Panic(r)}
        ELSE
          LET d == Decl("Subnet", snet.Name, "snet-" \o snet.Name,
                        r.virtualNetworkDependencies, r.virtualNetwork,
                        {r.resourceGroup, r.virtualNetwork,
                         r.nsgMap[snet.NSGName], r.rtMap[snet.RTName]},
                        [NetworkSecurityGroup |-> r.nsgMap[snet.NSGName],
                         RouteTable |-> r.rtMap[snet.RTName]])
              r1 == Register(r, d, ok, e)
          IN  IF r1.status = "returned" THEN {r1}
              ELSE {Advance([r1 EXCEPT !.snetMap = MapSet(@, snet.Name, Handle(r1)),
                                       !.snetResources = Append(@, Handle(r1))])}

NewPublicIPAddress(r, ok, e) ==
    LET pip == r.vnet.PIP[r.i]
        d == Decl("PIP", pip.Name, ResourceName("pip-", pip.Name, r.nameSuffix),
                  r.snetResources, r.resourceGroup, {r.resourceGroup},
                  [Tags |-> r.tags])
        r1 == Register(r, d, ok, e)
    IN  IF r1.status = "returned" THEN {r1}
        ELSE {Advance([r1 EXCEPT !.pipMap = MapSet(@, pip.Name, Handle(r1)),
                                 !.pipResources = Append(@, Handle(r1))])}

\* ipConfigArgs bound to whatever public IP was declared first.
IpConfigArgsAnyPip(r, nic) ==
    [Name |-> "ipconfig", Subnet |-> r.snetMap[nic.SnetName],
     PublicIPAddress |-> IF nic.PipName # "" /\ Len(r.pipResources) > 0
                         THEN r.pipResources[1] ELSE 0]

\* ipConfigArgs: PublicIPAddress is set only if pipMap holds nic.PipName;
\* 0 is the field left nil.
IpConfigArgs(r, nic) ==
    [Name |-> "ipconfig", Subnet |-> r.snetMap[nic.SnetName],
     PublicIPAddress |-> IF nic.PipName \in DOMAIN r.pipMap
                         THEN r.pipMap[nic.PipName] ELSE 0]

NewNetworkInterface(r, ok, e) ==
    LET nic == r.vnet.NIC[r.i]
    IN  IF ~Resolves(r.snetMap, nic.SnetName)
        THEN {Panic(r)}
        ELSE
          LET ipc == IpConfigArgs(r, nic)
              d == Decl("NIC", nic.Name, ResourceName("nic-", nic.Name, r.nameSuffix),
                        r.pipResources, r.resourceGroup,
                        {r.resourceGroup, ipc.Subnet, ipc.PublicIPAddress} \ {0},
                        [IpConfigurations |-> <<ipc>>, Tags |-> r.tags])
              r1 == Register(r, d, ok, e)
          IN  IF r1.status = "returned" THEN {r1}
              ELSE {Advance([r1 EXCEPT !.nicMap = MapSet(@, nic.Name, Handle(r1)),
                                       !.nicResources = Append(@, Handle(r1))])}

\* random.NewRandomString: the result is the host runtime's to choose.
NewRandomString(r, ok, e) ==
    UNION {
      LET d == Decl("Random", "", "random-os-disk-id", r.nicResources, 0, {},
                    [Result |-> result])
          r1 == Register(r, d, ok, e)
      IN  IF r1.status = "returned" THEN {r1}
          ELSE {Advance([r1 EXCEPT !.randomOsDiskId = Handle(r1)])}
      : result \in RandomResults}

\* NetworkInterfaces with nic0 and nic1 exchanged.
NetworkInterfacesExchanged(r) ==
    <<[Id |-> r.nicMap[r.vm.NicMap.Nic1], Primary |-> TRUE],
      [Id |-> r.nicMap[r.vm.NicMap.Nic0], Primary |-> FALSE],
      [Id |-> r.nicMap[r.vm.NicMap.Nic2], Primary |-> FALSE]>>

\* NetworkProfile.NetworkInterfaces
NetworkInterfaces(r) ==
    <<[Id |-> r.nicMap[r.vm.NicMap.Nic0], Primary |-> TRUE],
      [Id |-> r.nicMap[r.vm.NicMap.Nic1], Primary |-> FALSE],
      [Id |-> r.nicMap[r.vm.NicMap.Nic2], Primary |-> FALSE]>>

NewVirtualMachine(r, ok, e) ==
    IF \E n \in {r.vm.NicMap.Nic0, r.vm.NicMap.Nic1, r.vm.NicMap.Nic2} :
          ~Resolves(r.nicMap, n)
    THEN {Panic(r)}
    ELSE
      LET nics == NetworkInterfaces(r)
          d == Decl("VM", "", "vm-" \o r.tags.Solution \o "-prod-",
                    Append(r.nicResources, r.randomOsDiskId), r.resourceGroup,
                    {r.resourceGroup, r.randomOsDiskId} \cup {nics[k].Id : k \in 1..3},
                    [NetworkInterfaces |-> nics,
                     OsDiskName |-> "os-" \o r.nameSuffix
                                        \o r.trace[r.randomOsDiskId].args.Result,
                     Tags |-> r.tags])
          r1 == Register(r, d, ok, e)
      IN  IF r1.status = "returned" THEN {r1} ELSE {Advance(r1)}

\* return nil
ReturnNil(r) == {[r EXCEPT !.status = "returned"]}

\* What the file system and the host runtime answer to one step.
Env == [fileOk : BOOLEAN, content : ReadmeContents, readErr : ReadErrors,
        hostOk : BOOLEAN, hostErr : HostErrors]

\* A host runtime that accepts every declaration.
AcceptingEnv == [fileOk : BOOLEAN, content : ReadmeContents, readErr : ReadErrors,
                 hostOk : {TRUE}, hostErr : {"nil"}]

\* One step of main from r.
Step(r, c, env) ==
    CASE r.status # "running" -> {}
      [] r.pc = "readme" -> ReadReadme(r, env.fileOk, env.content, env.readErr)
      [] r.pc = "config" -> LoadConfig(r, c)
      [] r.pc = "rg" -> NewResourceGroup(r, env.hostOk, env.hostErr)
      [] r.pc = "nsg" -> NewNetworkSecurityGroup(r, env.hostOk, env.hostErr)
      [] r.pc = "rt" -> NewRouteTable(r, env.hostOk, env.hostErr)
      [] r.pc = "vnet" -> NewVirtualNetwork(r, env.hostOk, env.hostErr)
      [] r.pc = "snet" -> NewSubnet(r, env.hostOk, env.hostErr)
      [] r.pc = "pip" -> NewPublicIPAddress(r, env.hostOk, env.hostErr)
      [] r.pc = "nic" -> NewNetworkInterface(r, env.hostOk, env.hostErr)
      [] r.pc = "rand" -> NewRandomString(r, env.hostOk, env.hostErr)
      [] r.pc = "vm" -> NewVirtualMachine(r, env.hostOk, env.hostErr)
      [] r.pc = "done" -> ReturnNil(r)
      [] OTHER -> {}

(***************************************************************************)
(* The specification of one run.                                           *)
(***************************************************************************)
Init ==
    /\ \E n \in Sizes :
          ctx \in [stack : Stacks, config : [tags : Tags, vnet : VNET(n), vm : VM]]
    /\ run = InitRun
    /\ twin = InitRun
    /\ materialized = {}

Readme ==
    /\ run.status = "running"
    /\ run.pc = "readme"
    /\ \E ok \in BOOLEAN, content \in ReadmeContents, e \in ReadErrors :
          run' \in ReadReadme(run, ok, content, e)
    /\ UNCHANGED <<ctx, twin, materialized>>

Config ==
    /\ run.status = "running"
    /\ run.pc = "config"
    /\ run' \in LoadConfig(run, ctx)
    /\ UNCHANGED <<ctx, twin, materialized>>

ResourceGroup ==
    /\ run.status = "running"
    /\ run.pc = "rg"
    /\ \E ok \in BOOLEAN, e \in HostErrors : run' \in NewResourceGroup(run, ok, e)
    /\ UNCHANGED <<ctx, twin, materialized>>

NetworkSecurityGroup ==
    /\ run.status = "running"
    /\ run.pc = "nsg"
    /\ \E ok \in BOOLEAN, e \in HostErrors : run' \in NewNetworkSecurityGroup(run, ok, e)
    /\ UNCHANGED <<ctx, twin, materialized>>

RouteTable ==
    /\ run.status = "running"
    /\ run.pc = "rt"
    /\ \E ok \in BOOLEAN, e \in HostErrors : run' \in NewRouteTable(run, ok, e)
    /\ UNCHANGED <<ctx, twin, materialized>>

VirtualNetwork ==
    /\ run.status = "running"
    /\ run.pc = "vnet"
    /\ \E ok \in BOOLEAN, e \in HostErrors : run' \in NewVirtualNetwork(run, ok, e)
    /\ UNCHANGED <<ctx, twin, materialized>>

Subnet ==
    /\ run.status = "running"
    /\ run.pc = "snet"
    /\ \E ok \in BOOLEAN, e \in HostErrors : run' \in NewSubnet(run, ok, e)
    /\ UNCHANGED <<ctx, twin, materialized>>

PublicIPAddress ==
    /\ run.status = "running"
    /\ run.pc = "pip"
    /\ \E ok \in BOOLEAN, e \in HostErrors : run' \in NewPublicIPAddress(run, ok, e)
    /\ UNCHANGED <<ctx, twin, materialized>>

NetworkInterface ==
    /\ run.status = "running"
    /\ run.pc = "nic"
    /\ \E ok \in BOOLEAN, e \in HostErrors : run' \in NewNetworkInterface(run, ok, e)
    /\ UNCHANGED <<ctx, twin, materialized>>

RandomString ==
    /\ run.status = "running"
    /\ run.pc = "rand"
    /\ \E ok \in BOOLEAN, e \in HostErrors : run' \in NewRandomString(run, ok, e)
    /\ UNCHANGED <<ctx, twin, materialized>>

VirtualMachine ==
    /\ run.status = "running"
    /\ run.pc = "vm"
    /\ \E ok \in BOOLEAN, e \in HostErrors : run' \in NewVirtualMachine(run, ok, e)
    /\ UNCHANGED <<ctx, twin, materialized>>

Finish ==
    /\ run.status = "running"
    /\ run.pc = "done"
    /\ run' \in ReturnNil(run)
    /\ UNCHANGED <<ctx, twin, materialized>>

Next ==
    \/ Readme
    \/ Config
    \/ ResourceGroup
    \/ NetworkSecurityGroup
    \/ RouteTable
    \/ VirtualNetwork
    \/ Subnet
    \/ PublicIPAddress
    \/ NetworkInterface
    \/ RandomString
    \/ VirtualMachine
    \/ Finish

Spec == Init /\ [][Next]_vars

(***************************************************************************)
(* The host runtime at work beside the run: it materializes a declared     *)
(* resource once everything the declaration has an edge to (explicit wait, *)
(* parent pointer, embedded handle) is materialized.                       *)
(***************************************************************************)
Edges(d) == Range(d.deps) \cup d.uses \cup (IF d.parent = 0 THEN {} ELSE {d.parent})

Program ==
    /\ \E env \in AcceptingEnv : run' \in Step(run, ctx, env)
    /\ UNCHANGED <<ctx, twin, materialized>>

Materialize ==
    /\ \E h \in 1..Len(run.trace) :
          /\ run.trace[h].ok
          /\ h \notin materialized
          /\ Edges(run.trace[h]) \subseteq materialized
          /\ materialized' = materialized \cup {h}
    /\ UNCHANGED <<ctx, run, twin>>

HostNext ==
    \/ Program
    \/ Materialize

HostSpec == Init /\ [][HostNext]_vars

(***************************************************************************)
(* Two runs of the program on the same configuration, stack and            *)
(* environment, each with its own map visiting orders and its own random   *)
(* result.                                                                 *)
(***************************************************************************)
TwinNext ==
    /\ \E env \in AcceptingEnv :
          /\ run' \in Step(run, ctx, env)
          /\ twin' \in Step(twin, ctx, env)
    /\ UNCHANGED <<ctx, materialized>>

TwinSpec == Init /\ [][TwinNext]_vars

(***************************************************************************)
(* Vocabulary of the properties.                                           *)
(***************************************************************************)
KindOrder ==
    <<"ResourceGroup", "NSG", "RT", "VNet", "Subnet", "PIP", "NIC", "Random", "VM">>

RankOf == [kind \in Range(KindOrder) |-> CHOOSE k \in DOMAIN KindOrder : KindOrder[k] = kind]
Rank(kind) == RankOf[kind]

IndexKinds == {"NSG", "RT", "Subnet", "PIP", "NIC"}

\* The configured resources of a kind.
Configured(kind) ==
    CASE kind = "NSG" -> ctx.config.vnet.NSG
      [] kind = "RT" -> ctx.config.vnet.RT
      [] kind = "Subnet" -> ctx.config.vnet.SNET
      [] kind = "PIP" -> ctx.config.vnet.PIP
      [] kind = "NIC" -> ctx.config.vnet.NIC

ConfiguredNames(kind) == {Configured(kind)[k].Name : k \in DOMAIN Configured(kind)}

DistinctNames(kind) ==
    \A p, q \in DOMAIN Configured(kind) :
        p # q => Configured(kind)[p].Name # Configured(kind)[q].Name

\* The declarations of a kind handed to the host runtime, and those it accepted.
Positions(r, kind) == {p \in 1..Len(r.trace) : r.trace[p].kind = kind}
Declared(r, kind) == {p \in Positions(r, kind) : r.trace[p].ok}
DeclaredNames(r, kind) == {r.trace[p].logical : p \in Declared(r, kind)}

\* The position of the k-th declaration of a kind: the declarations of a
\* kind are the k-th, for k from 1 on, in the order of their positions.
Nth(r, kind, k) ==
    CHOOSE p \in Positions(r, kind) : Cardinality({q \in Positions(r, kind) : q < p}) = k - 1

\* The name-resolution index of a kind.
IndexOf(r, kind) ==
    CASE kind = "NSG" -> r.nsgMap
      [] kind = "RT" -> r.rtMap
      [] kind = "Subnet" -> r.snetMap
      [] kind = "PIP" -> r.pipMap
      [] kind = "NIC" -> r.nicMap

StageOf(kind) ==
    CASE kind = "NSG" -> "nsg"
      [] kind = "RT" -> "rt"
      [] kind = "Subnet" -> "snet"
      [] kind = "PIP" -> "pip"
      [] kind = "NIC" -> "nic"

\* The run has executed the k-th iteration of the loop of a stage.
Acted(stage, k) ==
    /\ run.pc \in Range(Stages)
    /\ \/ StageNo(run.pc) > StageNo(stage)
       \/ run.pc = stage /\ run.i > k
       \/ run.pc = stage /\ run.i = k /\ run.status # "running"

\* How many declarations of a kind a complete run makes.
Expected(kind) == IF kind \in IndexKinds THEN Len(Configured(kind)) ELSE 1

(***************************************************************************)
(* C1.  Emission order: a declaration of an upstream kind precedes every   *)
(* declaration of a downstream kind, and when a declaration is emitted all *)
(* declarations of every upstream kind have been emitted and accepted.     *)
(***************************************************************************)
C1_EmissionOrder ==
    LET rank == [p \in 1..Len(run.trace) |-> Rank(run.trace[p].kind)]
    IN  /\ \A p, q \in DOMAIN rank : rank[p] < rank[q] => p < q
        /\ \A kind \in Range(KindOrder) :
              (\E q \in DOMAIN rank : Rank(kind) < rank[q])
                  => Cardinality(Declared(run, kind)) = Expected(kind)

\* A complete run in which every kind has been declared.
C1_Witness ==
    /\ run.status = "returned"
    /\ run.pc = "done"
    /\ \A kind \in Range(KindOrder) : Declared(run, kind) # {}

(***************************************************************************)
(* C2.  Subnet references: once the run has acted on a configured subnet,  *)
(* a subnet whose NSGName and RTName both name declared resources has been *)
(* declared with the handles of exactly those two resources, and a subnet  *)
(* with an undeclared name has not been declared and the run has failed    *)
(* with UnresolvedReference(kind, name).                                   *)
(***************************************************************************)
UnresolvedReference(kind, name) == "UnresolvedReference(" \o kind \o ", " \o name \o ")"

C2_SubnetReferences ==
    \A k \in DOMAIN ctx.config.vnet.SNET :
        LET s == ctx.config.vnet.SNET[k]
            nsgDeclared == s.NSGName \in DeclaredNames(run, "NSG")
            rtDeclared == s.RTName \in DeclaredNames(run, "RT")
        IN  Acted("snet", k) =>
              IF nsgDeclared /\ rtDeclared
              THEN /\ Cardinality(Positions(run, "Subnet")) >= k
                   /\ LET d == run.trace[Nth(run, "Subnet", k)]
                      IN  /\ d.args.NetworkSecurityGroup \in Declared(run, "NSG")
                          /\ run.trace[d.args.NetworkSecurityGroup].logical = s.NSGName
                          /\ d.args.RouteTable \in Declared(run, "RT")
                          /\ run.trace[d.args.RouteTable].logical = s.RTName
              ELSE /\ Cardinality(Positions(run, "Subnet")) < k
                   /\ run.status = "returned"
                   /\ run.err = IF ~nsgDeclared
                                THEN UnresolvedReference("NSG", s.NSGName)
                                ELSE UnresolvedReference("RT", s.RTName)

(***************************************************************************)
(* C3.  NIC bindings: every NIC declaration has exactly one IP             *)
(* configuration, bound to the subnet declared under the NIC's SnetName;   *)
(* it carries a public IP exactly when the NIC's PipName is the logical    *)
(* name of a declared public IP, and then that public IP's handle; and a   *)
(* NIC whose PipName names no declared public IP (its subnet being         *)
(* declared) is handed to the host runtime all the same, the only error    *)
(* being the host runtime's own.                                           *)
(***************************************************************************)
C3_NicBinding ==
    /\ \A k \in 1..Cardinality(Positions(run, "NIC")) :
          LET d == run.trace[Nth(run, "NIC", k)]
              n == ctx.config.vnet.NIC[k]
              ipcs == d.args.IpConfigurations
          IN  /\ d.logical = n.Name
              /\ Len(ipcs) = 1
              /\ ipcs[1].Name = "ipconfig"
              /\ ipcs[1].Subnet \in Declared(run, "Subnet")
              /\ run.trace[ipcs[1].Subnet].logical = n.SnetName
              /\ (ipcs[1].PublicIPAddress # 0) <=> (n.PipName \in DeclaredNames(run, "PIP"))
              /\ ipcs[1].PublicIPAddress # 0 =>
                    /\ ipcs[1].PublicIPAddress \in Declared(run, "PIP")
                    /\ run.trace[ipcs[1].PublicIPAddress].logical = n.PipName
    /\ \A k \in DOMAIN ctx.config.vnet.NIC :
          LET n == ctx.config.vnet.NIC[k]
          IN  (/\ Acted("nic", k)
               /\ n.PipName \notin DeclaredNames(run, "PIP")
               /\ n.SnetName \in DeclaredNames(run, "Subnet"))
              => /\ Cardinality(Positions(run, "NIC")) >= k
                 /\ LET d == run.trace[Nth(run, "NIC", k)]
                    IN  /\ d.args.IpConfigurations[1].PublicIPAddress = 0
                        /\ d.ok \/ (d.err \in HostErrors /\ run.err = d.err)

\* A NIC accepted by the host runtime whose non-empty PipName names no
\* declared public IP, while a public IP of another name is declared.
C3_Witness ==
    \E k \in 1..Cardinality(Positions(run, "NIC")) :
        /\ run.trace[Nth(run, "NIC", k)].ok
        /\ ctx.config.vnet.NIC[k].PipName # ""
        /\ ctx.config.vnet.NIC[k].PipName \notin DeclaredNames(run, "PIP")
        /\ Declared(run, "PIP") # {}

(***************************************************************************)
(* C4.  Unique names, as claimed: no two declarations of the same kind     *)
(* carry the same declared name.                                           *)
(***************************************************************************)
C4_UniqueNames ==
    \A p, q \in 1..Len(run.trace) :
        (p # q /\ run.trace[p].kind = run.trace[q].kind)
            => run.trace[p].name # run.trace[q].name

(***************************************************************************)
(* C4, amended.  When the logical names configured for each kind are       *)
(* pairwise distinct, no two declarations of the same kind carry the same  *)
(* declared name.                                                          *)
(***************************************************************************)
C4_UniqueNamesOfDistinctLogicalNames ==
    (\A kind \in IndexKinds : DistinctNames(kind)) => C4_UniqueNames

\* Two NSGs of distinct logical names and a NIC have been declared.
C4_Witness ==
    /\ \A kind \in IndexKinds : DistinctNames(kind)
    /\ Cardinality(Declared(run, "NSG")) = 2
    /\ Declared(run, "NIC") # {}

(***************************************************************************)
(* C5.  Abort at the first refusal: a declaration the host runtime refused *)
(* is the last one emitted, the run has returned its error, and no index,  *)
(* dependency list or handle of the run holds it.                          *)
(***************************************************************************)
HandlesHeld(r) ==
    UNION {Range(IndexOf(r, kind)) : kind \in IndexKinds}
        \cup Range(r.virtualNetworkDependencies) \cup Range(r.snetResources)
        \cup Range(r.pipResources) \cup Range(r.nicResources)
        \cup {r.resourceGroup, r.virtualNetwork, r.randomOsDiskId}

C5_AbortAtFirstRefusal ==
    \A p \in 1..Len(run.trace) :
        ~run.trace[p].ok =>
            /\ p = Len(run.trace)
            /\ run.status = "returned"
            /\ run.err = run.trace[p].err
            /\ run.err \in HostErrors
            /\ p \notin HandlesHeld(run)

\* The host runtime refused the second NIC.
C5_Witness ==
    /\ Cardinality(Positions(run, "NIC")) = 2
    /\ ~run.trace[Len(run.trace)].ok

(***************************************************************************)
(* C6.  Readme: a run stopped at the readme has failed with ReadmeMissing, *)
(* has declared nothing, exported nothing and not consulted the            *)
(* configuration; a run past the readme has exported its content under key *)
(* readme, and nothing else, before any declaration.                       *)
(***************************************************************************)
ReadmeMissing == {"failed to read readme: " \o e : e \in ReadErrors}

C6_Readme ==
    /\ run.pc = "readme" =>
          /\ run.trace = <<>>
          /\ run.exports = <<>>
          /\ ~run.consulted
          /\ run.tags = ZeroTags /\ run.vnet = ZeroVNET /\ run.vm = ZeroVM
          /\ run.status # "panicked"
          /\ run.status = "returned" => run.err \in ReadmeMissing
    /\ run.pc # "readme" =>
          /\ Len(run.exports) = 1
          /\ run.exports[1].key = "readme"
          /\ run.exports[1].value \in ReadmeContents
          /\ run.err \notin ReadmeMissing
    /\ run.pc = "config" => run.trace = <<>> /\ ~run.consulted

\* The readme could not be read and the run has returned.
C6_Witness == run.pc = "readme" /\ run.status = "returned"

(***************************************************************************)
(* C8.  VM NICs: the VM declaration binds three NIC references, the        *)
(* handles of the NICs declared under nicMap.nic0, nic1 and nic2 in that   *)
(* order, and the first alone is primary.                                  *)
(***************************************************************************)
C8_VmNics ==
    \A p \in Positions(run, "VM") :
        LET nics == run.trace[p].args.NetworkInterfaces
            names == <<ctx.config.vm.NicMap.Nic0, ctx.config.vm.NicMap.Nic1,
                       ctx.config.vm.NicMap.Nic2>>
        IN  /\ Len(nics) = 3
            /\ \A k \in 1..3 :
                  /\ nics[k].Id \in Declared(run, "NIC")
                  /\ nics[k].Id < p
                  /\ run.trace[nics[k].Id].logical = names[k]
                  /\ nics[k].Primary <=> (k = 1)

\* A VM accepted by the host runtime whose nic0 and nic1 are different NICs.
C8_Witness ==
    \E p \in Declared(run, "VM") :
        run.trace[p].args.NetworkInterfaces[1].Id
            # run.trace[p].args.NetworkInterfaces[2].Id

(***************************************************************************)
(* C10.  Indices: each index maps exactly the logical names of the         *)
(* accepted declarations of its kind, each to an accepted declaration made *)
(* under that name; once a declaration of a downstream kind is emitted the *)
(* index holds every configured name of its kind; and a step changes an    *)
(* index only while its own kind is being declared, never after a          *)
(* declaration of a downstream kind.                                       *)
(***************************************************************************)
IndicesExact ==
    \A kind \in IndexKinds :
        LET m == IndexOf(run, kind)
        IN  /\ DOMAIN m = DeclaredNames(run, kind)
            /\ \A n \in DOMAIN m :
                  /\ run.trace[m[n]].kind = kind
                  /\ run.trace[m[n]].ok
                  /\ run.trace[m[n]].logical = n
            /\ (\E q \in 1..Len(run.trace) : Rank(kind) < Rank(run.trace[q].kind))
                  => DOMAIN m = ConfiguredNames(kind)

IndicesWrittenByOwner ==
    \A kind \in IndexKinds :
        IndexOf(run', kind) # IndexOf(run, kind) =>
            /\ run.pc = StageOf(kind)
            /\ \A q \in 1..Len(run.trace) : Rank(run.trace[q].kind) <= Rank(kind)
            /\ Len(run'.trace) = Len(run.trace) + 1
            /\ run'.trace[Len(run'.trace)].kind = kind

C10_Indices == []IndicesExact /\ [][IndicesWrittenByOwner]_vars

\* Every index holds an entry and the VM has been declared.
C10_Witness ==
    /\ \A kind \in IndexKinds : DOMAIN IndexOf(run, kind) # {}
    /\ Declared(run, "VM") # {}

(***************************************************************************)
(* C7.  Materialization order, as claimed: every route table is            *)
(* materialized after all NSGs, the virtual network after all NSGs and all *)
(* route tables, every subnet after the virtual network, every public IP   *)
(* after all subnets, every NIC after all public IPs, the random           *)
(* identifier after all NICs, and the VM after all NICs and the random     *)
(* identifier.                                                             *)
(***************************************************************************)
\* A materialized resource of a kind has every declared resource of the
\* upstream kind materialized before it.
After(kind, upstream) ==
    (\E h \in materialized : run.trace[h].kind = kind)
        => Declared(run, upstream) \subseteq materialized

AfterConfigured ==
    /\ After("Subnet", "VNet")
    /\ After("PIP", "Subnet")
    /\ After("NIC", "PIP")
    /\ After("Random", "NIC")
    /\ After("VM", "NIC")
    /\ After("VM", "Random")

C7_MaterializationOrder ==
    /\ After("RT", "NSG")
    /\ After("VNet", "NSG")
    /\ After("VNet", "RT")
    /\ AfterConfigured

(***************************************************************************)
(* C7, amended.  Every route table and the virtual network are             *)
(* materialized after all NSGs when the NSGs' logical names are pairwise   *)
(* distinct, the virtual network after all route tables when the route     *)
(* tables' logical names are pairwise distinct, and for every              *)
(* configuration every subnet after the virtual network, every public IP   *)
(* after all subnets, every NIC after all public IPs, the random           *)
(* identifier after all NICs, and the VM after all NICs and the random     *)
(* identifier.                                                             *)
(***************************************************************************)
C7_MaterializationOrderOfDistinctNames ==
    /\ DistinctNames("NSG") => After("RT", "NSG") /\ After("VNet", "NSG")
    /\ DistinctNames("RT") => After("VNet", "RT")
    /\ AfterConfigured

\* The VM of a configuration with two NSGs of distinct names is materialized.
C7_Witness ==
    /\ DistinctNames("NSG") /\ DistinctNames("RT")
    /\ Cardinality(Declared(run, "NSG")) = 2
    /\ \E h \in materialized : run.trace[h].kind = "VM"

(***************************************************************************)
(* C9.  Two runs on the same configuration, stack and environment are at   *)
(* the same statement with the same outcome, exports and indices, and have *)
(* emitted the same declarations with the same names, arguments, parents   *)
(* and sets of dependencies, apart from the random result and the OS disk  *)
(* name built from it.                                                     *)
(***************************************************************************)
OsDiskPrefixes == {"os-" \o "panos-vm-" \o stack \o "-" : stack \in Stacks}

\* A declaration with its dependency list as a set and the random result erased.
Abstract(d) ==
    [kind |-> d.kind, logical |-> d.logical, name |-> d.name, deps |-> Range(d.deps),
     parent |-> d.parent, uses |-> d.uses, ok |-> d.ok, err |-> d.err,
     args |-> CASE d.kind = "Random" -> [Result |-> "*"]
                [] d.kind = "VM" ->
                     [d.args EXCEPT !.OsDiskName =
                         {prefix \in OsDiskPrefixes :
                             \E result \in RandomResults : prefix \o result = @}]
                [] OTHER -> d.args]

Graph(r) == [p \in 1..Len(r.trace) |-> Abstract(r.trace[p])]

C9_SameGraph ==
    /\ run.status = twin.status /\ run.pc = twin.pc /\ run.i = twin.i
    /\ run.err = twin.err
    /\ run.exports = twin.exports
    /\ \A kind \in IndexKinds : IndexOf(run, kind) = IndexOf(twin, kind)
    /\ Len(run.trace) = Len(twin.trace)
    /\ Graph(run) = Graph(twin)

\* Two complete runs that visited nsgMap in different orders and drew
\* different random results.
C9_Witness ==
    /\ run.status = "returned" /\ run.pc = "done"
    /\ \E p \in Positions(run, "RT") : run.trace[p].deps # twin.trace[p].deps
    /\ \E p \in Positions(run, "VM") :
          run.trace[p].args.OsDiskName # twin.trace[p].args.OsDiskName

====
